---- MODULE Spec2Model ----
(***************************************************************************)
(* A model of app.py, the pediatric history trainer: the case-bank loader   *)
(* (load_cases), the prompt builder (build_system_prompt) and the Streamlit *)
(* script, one action per script run, cut at the blocking model call.       *)
(***************************************************************************)
EXTENDS Integers, Sequences, FiniteSets, TLC

\* Rows per source table drawn by the model.
MaxRows == 2
\* Submissions are accepted while the transcript is shorter than this.
MaxTurns == 3

VARIABLES
    df,                 \* the case bank load_cases() returned in the latest run (the cache entry)
    session_state,      \* st.session_state: a function on the keys that are set
    selected_case_name, \* the selectbox's value
    enable_audio,       \* the toggle's value
    chat_input_text,    \* st.chat_input's value in the latest run
    voice_text,         \* speech_to_text's value in the latest run
    gemini_history,     \* the message list handed to generate_content while it runs
    pc,                 \* "idle" between runs, "calling" inside generate_content
    trigger,            \* the interaction that started the latest run
    error,              \* how the latest run ended
    since_reset,        \* history: the turns appended since the last reset, with the case bound then
    source              \* the sheet a loader run is given (loader specification)

vars == <<df, session_state, selected_case_name, enable_audio, chat_input_text,
          voice_text, gemini_history, pc, trigger, error, since_reset, source>>

-----------------------------------------------------------------------------
\* Values

\* pandas' missing-value marker: read_csv yields it for an empty or absent cell.
NaN == "<NaN>"
\* Python's None.
None == "<None>"

\* A header string: `lead` whitespace characters, a core without surrounding
\* whitespace, `trail` whitespace characters.
Hdr(s) == [lead |-> 0, core |-> s, trail |-> 0]
Padded(s) == [lead |-> 1, core |-> s, trail |-> 1]

rename_map ==
    ("Case Name" :> "Case_Name") @@
    ("Hidden Diagnosis" :> "Hidden_Diagnosis") @@
    ("Parent Persona" :> "Parent_Persona") @@
    ("Parent_Personae" :> "Parent_Persona") @@
    ("Chief Complaint" :> "Chief_Complaint") @@
    ("HPI Timeline" :> "HPI_Timeline") @@
    ("Symptom Visuals" :> "Symptom_Visuals") @@
    ("Symptom Behavior" :> "Symptom_Behavior") @@
    ("Medical History" :> "Medical_History") @@
    ("Medications" :> "Medications") @@
    ("Jargon Triggers" :> "Jargon_Triggers") @@
    ("Lab Results" :> "Lab_Results") @@
    ("Imaging Results" :> "Imaging_Results") @@
    ("Correct Mgmt" :> "Correct_Mgmt") @@
    ("Critical Pitfalls" :> "Critical_Pitfalls") @@
    ("Educational Pearl" :> "Educational_Pearl")

\* pd.DataFrame(): no columns, no rows.
EmptyDataFrame == [columns |-> <<>>, rows |-> <<>>]

\* DataFrame.empty: some axis has length 0.
df_empty(d) == Len(d.columns) = 0 \/ Len(d.rows) = 0

-----------------------------------------------------------------------------
\* load_cases

\* A label is renamed when it is exactly a key of the rename table.
rename_label(h) ==
    IF h.lead = 0 /\ h.trail = 0 /\ h.core \in DOMAIN rename_map
    THEN Hdr(rename_map[h.core])
    ELSE h

\* Variant: the result of df.rename is not assigned.
df_rename_discarded(d) == d

\* df = df.rename(columns=rename_map)
df_rename(d) ==
    [d EXCEPT !.columns = [i \in DOMAIN d.columns |-> rename_label(d.columns[i])]]

\* df.columns = df.columns.str.strip()
df_strip_columns(d) ==
    [d EXCEPT !.columns = [i \in DOMAIN d.columns |->
                              [d.columns[i] EXCEPT !.lead = 0, !.trail = 0]]]

\* 'Case_Name' in df.columns
has_column(d, name) == \E i \in DOMAIN d.columns : d.columns[i] = Hdr(name)

\* Variant: dropna() without subset.
dropna_any(d, name) ==
    [d EXCEPT !.rows = SelectSeq(d.rows, LAMBDA r : \A i \in DOMAIN r : r[i] # NaN)]

\* df.dropna(subset=[name]): the rows with no NaN under the label `name`.
dropna(d, name) ==
    [d EXCEPT !.rows = SelectSeq(d.rows,
        LAMBDA r : \A i \in DOMAIN d.columns : d.columns[i] = Hdr(name) => r[i] # NaN)]

\* The sheet as read_csv delivers it: either an exception, or a table.
load_cases(src) ==
    IF ~src.ok
    THEN EmptyDataFrame
    ELSE LET d == df_strip_columns(df_rename(src.table))
         IN IF has_column(d, "Case_Name")
            THEN dropna(d, "Case_Name")
            ELSE EmptyDataFrame

-----------------------------------------------------------------------------
\* Sheets the model draws from

\* The sheet's header row, in the spellings the rename table expects.
SheetColumns ==
    << "Case Name", "Hidden Diagnosis", "Parent Persona", "Chief Complaint",
       "HPI Timeline", "Symptom Visuals", "Symptom Behavior", "Medical History",
       "Medications", "Jargon Triggers", "Lab Results", "Imaging Results",
       "Correct Mgmt", "Critical Pitfalls", "Educational Pearl" >>

FullCols == [i \in DOMAIN SheetColumns |-> Hdr(SheetColumns[i])]

IsNameHeader(h) == h.core \in {"Case Name", "Case_Name", "Name"}

\* One sheet row: the name cell, `nan` left empty, every other cell `fill`.
SheetRow(cols, spec) ==
    [i \in DOMAIN cols |->
        IF IsNameHeader(cols[i]) THEN spec.name
        ELSE IF cols[i].core = spec.nan THEN NaN
        ELSE spec.fill]

SheetTable(cols, specs) ==
    [columns |-> cols, rows |-> [i \in DOMAIN specs |-> SheetRow(cols, specs[i])]]

SeqsUpTo(S, n) == UNION {[1..k -> S] : k \in 0..n}

FetchError == [ok |-> FALSE, table |-> EmptyDataFrame]

Sheet(cols, specs) == [ok |-> TRUE, table |-> SheetTable(cols, specs)]

\* Rows of the sheets a session sees: case A in two editions, case B with an
\* empty chief complaint, and a row without a name.
RowA1 == [name |-> "A", fill |-> "v1", nan |-> "-"]
RowA2 == [name |-> "A", fill |-> "v2", nan |-> "-"]
RowB == [name |-> "B", fill |-> "v1", nan |-> "Chief Complaint"]
RowNoName == [name |-> NaN, fill |-> "v1", nan |-> "-"]

\* The sheet as a session finds it over time: cases added, removed, edited and
\* reordered, a column lost, the name header misspelt, the fetch failing.
SessionSources ==
    { Sheet(FullCols, <<RowA1>>),
      Sheet(FullCols, <<RowA2, RowNoName>>),
      Sheet(FullCols, <<RowB>>),
      Sheet(FullCols, <<RowA1, RowB>>),
      Sheet(FullCols, <<RowNoName, RowA2, RowB>>),
      Sheet(FullCols, <<RowB, RowA1>>),
      Sheet(FullCols, <<RowA1, RowA2>>),
      Sheet(FullCols, <<RowNoName>>),
      Sheet(SelectSeq(FullCols, LAMBDA h : h.core # "Lab Results"), <<RowA1>>),
      Sheet([FullCols EXCEPT ![1] = Padded("Case Name")], <<RowA1>>),
      FetchError }

\* Sheets for the loader on its own: every spelling of the name and persona
\* headers, a sheet with both persona spellings, a sheet lacking a column, and
\* rows with any mix of empty cells.
NameHeaders ==
    {Hdr("Case Name"), Hdr("Case_Name"), Padded("Case Name"), Padded("Case_Name"), Hdr("Name")}

PersonaHeaders ==
    {Hdr("Parent Persona"), Hdr("Parent_Personae"), Hdr("Parent_Persona"), Padded("Parent Persona")}

LoaderCols ==
    LET base == {[FullCols EXCEPT ![1] = n, ![3] = p] : n \in NameHeaders, p \in PersonaHeaders}
    IN base
       \cup {SelectSeq(c, LAMBDA h : h.core # "Lab Results") : c \in base}
       \cup {Append(c, Hdr("Parent_Personae")) : c \in {b \in base : b[3] = Hdr("Parent Persona")}}

LoaderRows ==
    {[name |-> n, fill |-> f, nan |-> m] :
        n \in {NaN, "A", "B"}, f \in {"v1", NaN}, m \in {"-", "Chief Complaint"}}

LoaderSources ==
    {Sheet(c, rs) : c \in LoaderCols, rs \in SeqsUpTo(LoaderRows, MaxRows)} \cup {FetchError}

-----------------------------------------------------------------------------
\* build_system_prompt

\* The fields the template interpolates, in template order.
PromptFields ==
    << "Parent_Persona", "Jargon_Triggers", "Chief_Complaint", "HPI_Timeline",
       "Symptom_Visuals", "Symptom_Behavior", "Medical_History", "Medications",
       "Lab_Results", "Imaging_Results", "Hidden_Diagnosis", "Correct_Mgmt",
       "Critical_Pitfalls", "Educational_Pearl" >>

\* case[name] on a Series whose labels are unique: defined when the label exists.
series_has(case, name) == \E i \in DOMAIN case.index : case.index[i] = Hdr(name)

series_get(case, name) ==
    case.values[CHOOSE i \in DOMAIN case.index : case.index[i] = Hdr(name)]

\* What an f-string writes for a cell: str(nan) is "nan", a string is itself.
fstring(v) == IF v = NaN THEN "nan" ELSE v

\* The instruction text, as the tuple of interpolated fields (the text between
\* them is constant); raises KeyError when the Series lacks a label.
build_system_prompt(case) ==
    IF \E k \in DOMAIN PromptFields : ~series_has(case, PromptFields[k])
    THEN [raises |-> "KeyError", text |-> <<>>]
    ELSE [raises |-> "none",
          text |-> [k \in DOMAIN PromptFields |-> fstring(series_get(case, PromptFields[k]))]]

-----------------------------------------------------------------------------
\* The script's pieces

\* st.session_state with no key set.
NoKeys == [k \in {} |-> None]

Messages(ss) == IF "messages" \in DOMAIN ss THEN ss.messages ELSE <<>>

\* df['Case_Name'].tolist()
case_names(d) ==
    LET c == CHOOSE i \in DOMAIN d.columns : d.columns[i] = Hdr("Case_Name")
    IN [r \in DOMAIN d.rows |-> d.rows[r][c]]

\* st.selectbox: the user's choice while it is an option, else the first option.
selectbox(options, choice) ==
    IF \E i \in DOMAIN options : options[i] = choice THEN choice ELSE options[1]

\* df[df['Case_Name'] == name].iloc[0]: the first row of that name, as a Series.
first_row_named(d, name) ==
    LET names == case_names(d)
        r == CHOOSE i \in DOMAIN names :
                 names[i] = name /\ \A j \in 1..(i - 1) : names[j] # name
    IN [index |-> d.columns, values |-> d.rows[r]]

\* Variant: the reset leaves the messages.
reset_messages_kept(ss) == Messages(ss)

\* st.session_state.messages = []
reset_messages(ss) == <<>>

\* Variant: the reset runs without the button.
sidebar_resets_always(ss, d, sel, button) ==
    [messages |-> reset_messages(ss),
     current_case_data |-> first_row_named(d, sel),
     chat_started |-> TRUE]

\* The Start / Reset Case button: session state after the sidebar has run.
sidebar(ss, d, sel, button) ==
    IF button
    THEN [messages |-> reset_messages(ss),
          current_case_data |-> first_row_named(d, sel),
          chat_started |-> TRUE]
    ELSE ss

\* Python truthiness of an optional string.
truthy(s) == s # None /\ s # ""

\* Variant: the transcription is tested first.
pick_prompt_voice_first(typed, voice) ==
    IF truthy(voice) THEN voice
    ELSE IF truthy(typed) THEN typed
    ELSE None

\* prompt: the typed text when there is one, else the transcribed speech.
pick_prompt(typed, voice) ==
    IF truthy(typed) THEN typed
    ELSE IF truthy(voice) THEN voice
    ELSE None

\* Variant: the record is looked up in the current bank.
prompt_case_from_bank(ss, d) ==
    LET name == series_get(ss.current_case_data, "Case_Name")
    IN IF \E i \in DOMAIN d.rows : case_names(d)[i] = name
       THEN first_row_named(d, name)
       ELSE ss.current_case_data

\* The record the prompt is built from: the one stored at the last reset.
prompt_case(ss, d) == ss.current_case_data

\* Variant: every turn is labelled user.
to_gemini_history_all_user(sys_prompt, msgs) ==
    <<[role |-> "user", parts |-> <<sys_prompt>>]>> \o
    [i \in DOMAIN msgs |-> [role |-> "user", parts |-> <<msgs[i].content>>]]

\* gemini_history: the instruction text, then every transcript turn.
to_gemini_history(sys_prompt, msgs) ==
    <<[role |-> "user", parts |-> <<sys_prompt>>]>> \o
    [i \in DOMAIN msgs |->
        [role |-> IF msgs[i].role = "user" THEN "user" ELSE "model",
         parts |-> <<msgs[i].content>>]]

\* Variant: the handler removes the user turn.
on_generate_error_rollback(ss) ==
    [ss EXCEPT !.messages = SubSeq(@, 1, Len(@) - 1)]

\* except Exception: st.error(...); session state is left as it is.
on_generate_error(ss) == ss

\* The banks a load can produce.
Banks == {load_cases(s) : s \in SessionSources}

\* @st.cache_data(ttl=60): a run's load_cases() returns the cached bank, or,
\* the entry having expired, a fresh load.
CacheOutcomes(cached) == {cached} \cup Banks

\* The typed and spoken inputs a run can carry.
TypedInputs == {None, "t"}
VoiceInputs == {None, "", "v"}
Replies == {"r"}

-----------------------------------------------------------------------------
\* The session

Init ==
    /\ df \in Banks
    /\ session_state = NoKeys
    /\ selected_case_name = IF df_empty(df) THEN None ELSE case_names(df)[1]
    /\ enable_audio = FALSE
    /\ chat_input_text = None
    /\ voice_text = None
    /\ gemini_history = <<>>
    /\ pc = "idle"
    /\ trigger = "open"
    /\ error = "none"
    /\ since_reset = <<>>
    /\ source = FetchError

\* One run of the script, top to bottom, up to the model call. d is the bank
\* load_cases() returns, choice/button/audio/typed/voice the widgets' values.
Run(d, choice, button, audio, typed, voice, trig) ==
    /\ pc = "idle"
    /\ ~df_empty(df)    \* the page of the latest run shows the widgets
    /\ trigger' = trig
    /\ enable_audio' = audio
    /\ UNCHANGED source
    /\ IF df_empty(d)
       THEN \* st.warning("Waiting for data..."): nothing else runs
            /\ df' = d
            /\ selected_case_name' = choice
            /\ chat_input_text' = None
            /\ voice_text' = None
            /\ error' = "none"
            /\ UNCHANGED <<session_state, gemini_history, pc, since_reset>>
       ELSE LET sel == selectbox(case_names(d), choice)
                ss1 == sidebar(session_state, d, sel, button)
            IN IF button
               THEN \* st.rerun(): this run stops; the run it starts has no input
                    \* and finds the bank in the cache
                    /\ df' = d
                    /\ selected_case_name' = sel
                    /\ session_state' = ss1
                    /\ since_reset' = <<>>
                    /\ chat_input_text' = None
                    /\ voice_text' = None
                    /\ error' = "none"
                    /\ UNCHANGED <<gemini_history, pc>>
               ELSE /\ df' = d
                    /\ selected_case_name' = sel
                    /\ voice_text' = voice
                    /\ IF "chat_started" \notin DOMAIN ss1
                       THEN \* st.info("Please select a case ...")
                            /\ session_state' = ss1
                            /\ chat_input_text' = None
                            /\ error' = "none"
                            /\ UNCHANGED <<gemini_history, pc, since_reset>>
                       ELSE LET ss2 == IF "messages" \in DOMAIN ss1
                                       THEN ss1
                                       ELSE [messages |-> <<>>] @@ ss1
                                prompt == pick_prompt(typed, voice)
                                turn == [role |-> "user", content |-> prompt]
                                ss3 == [ss2 EXCEPT !.messages = Append(@, turn)]
                                built == build_system_prompt(prompt_case(ss3, d))
                            IN /\ chat_input_text' = typed
                               /\ IF prompt = None
                                  THEN /\ session_state' = ss2
                                       /\ error' = "none"
                                       /\ UNCHANGED <<gemini_history, pc, since_reset>>
                                  ELSE /\ session_state' = ss3
                                       /\ IF built.raises # "none"
                                          THEN \* the exception leaves the script
                                               /\ error' = built.raises
                                               /\ since_reset' = Append(since_reset,
                                                     [turn |-> turn,
                                                      case |-> ss3.current_case_data,
                                                      call |-> "none"])
                                               /\ UNCHANGED <<gemini_history, pc>>
                                          ELSE /\ error' = "none"
                                               /\ gemini_history' =
                                                     to_gemini_history(built.text, ss3.messages)
                                               /\ pc' = "calling"
                                               /\ since_reset' = Append(since_reset,
                                                     [turn |-> turn,
                                                      case |-> ss3.current_case_data,
                                                      call |-> "pending"])

\* The user picks another case in the selectbox.
SelectCase(d, n) ==
    /\ n # selected_case_name
    /\ \E i \in DOMAIN df.rows : case_names(df)[i] = n
    /\ Run(d, n, FALSE, enable_audio, None, None, "select")

\* The user flips the text-to-speech toggle.
ToggleAudio(d) ==
    Run(d, selected_case_name, FALSE, ~enable_audio, None, None, "toggle")

\* The user presses Start / Reset Case.
StartReset(d) ==
    Run(d, selected_case_name, TRUE, enable_audio, None, None, "reset")

\* The user sends typed text, or the recorder delivers a transcription.
Submit(d, typed, voice) ==
    /\ typed # None \/ voice # None
    /\ typed # None => "chat_started" \in DOMAIN session_state
    /\ Len(Messages(session_state)) < MaxTurns
    /\ Run(d, selected_case_name, FALSE, enable_audio, typed, voice, "submit")

\* model.generate_content returns or raises; then the audio, if enabled.
ModelReply(ok, ai_reply, audio_ok) ==
    /\ pc = "calling"
    /\ pc' = "idle"
    /\ gemini_history' = <<>>
    /\ LET n == Len(since_reset)
       IN IF ok
          THEN LET turn == [role |-> "model", content |-> ai_reply]
               IN /\ session_state' = [session_state EXCEPT !.messages = Append(@, turn)]
                  /\ since_reset' = Append([since_reset EXCEPT ![n].call = "answered"],
                        [turn |-> turn,
                         case |-> session_state.current_case_data,
                         call |-> "reply"])
                  /\ error' = IF enable_audio /\ ~audio_ok
                              THEN "Audio Generation Error"
                              ELSE "none"
          ELSE /\ session_state' = on_generate_error(session_state)
               /\ since_reset' = [since_reset EXCEPT ![n].call = "failed"]
               /\ error' = "AI Generation Error"
    /\ UNCHANGED <<df, selected_case_name, enable_audio, chat_input_text, voice_text,
                   trigger, source>>

\* The browser reloads the page: a new session, the cache as it is or reloaded.
NewSession ==
    /\ df' \in CacheOutcomes(df)
    /\ session_state' = NoKeys
    /\ selected_case_name' = IF df_empty(df') THEN None ELSE case_names(df')[1]
    /\ enable_audio' = FALSE
    /\ chat_input_text' = None
    /\ voice_text' = None
    /\ gemini_history' = <<>>
    /\ pc' = "idle"
    /\ trigger' = "open"
    /\ error' = "none"
    /\ since_reset' = <<>>
    /\ UNCHANGED source

Next ==
    \/ NewSession
    \/ \E d \in CacheOutcomes(df) : \E n \in {"A", "B"} : SelectCase(d, n)
    \/ \E d \in CacheOutcomes(df) : ToggleAudio(d)
    \/ \E d \in CacheOutcomes(df) : StartReset(d)
    \/ \E d \in CacheOutcomes(df) : \E typed \in TypedInputs : \E voice \in VoiceInputs :
          Submit(d, typed, voice)
    \/ \E ok \in BOOLEAN : \E ai_reply \in Replies : \E audio_ok \in BOOLEAN :
          ModelReply(ok, ai_reply, audio_ok)

Spec == Init /\ [][Next]_vars

-----------------------------------------------------------------------------
\* The loader on its own

LoaderInit ==
    /\ source \in LoaderSources
    /\ df = EmptyDataFrame
    /\ pc = "load"
    /\ session_state = NoKeys
    /\ selected_case_name = None
    /\ enable_audio = FALSE
    /\ chat_input_text = None
    /\ voice_text = None
    /\ gemini_history = <<>>
    /\ trigger = "open"
    /\ error = "none"
    /\ since_reset = <<>>

\* df = load_cases()
LoadCases ==
    /\ pc = "load"
    /\ df' = load_cases(source)
    /\ pc' = "loaded"
    /\ UNCHANGED <<session_state, selected_case_name, enable_audio, chat_input_text,
                   voice_text, gemini_history, trigger, error, since_reset, source>>

LoaderNext == LoadCases

LoaderSpec == LoaderInit /\ [][LoaderNext]_vars

-----------------------------------------------------------------------------
\* Properties

Msgs == Messages(session_state)

Started == "chat_started" \in DOMAIN session_state

NoSeries == [index |-> <<>>, values |-> <<>>]

BoundCase(ss) ==
    IF "current_case_data" \in DOMAIN ss THEN ss.current_case_data ELSE NoSeries

Logged == [i \in DOMAIN since_reset |-> since_reset[i].turn]

IsPrefix(a, b) == Len(a) <= Len(b) /\ \A i \in DOMAIN a : a[i] = b[i]

\* C1: every turn of the transcript was appended after the latest Start/Reset,
\* under the case that reset bound, and right after a reset the transcript is
\* empty and a case is bound.
C1_TurnsBelongToBoundCase ==
    /\ Len(Msgs) = Len(since_reset)
    /\ \A i \in DOMAIN Msgs :
          /\ Msgs[i] = since_reset[i].turn
          /\ since_reset[i].case = BoundCase(session_state)
    /\ (trigger = "reset" /\ ~df_empty(df)) =>
          /\ Msgs = <<>>
          /\ Started
          /\ \E r \in DOMAIN df.rows : BoundCase(session_state).values = df.rows[r]

\* A second case is bound and has an answered turn of its own.
C1_Witness ==
    /\ Len(Msgs) = 2
    /\ Msgs[2].role = "model"
    /\ since_reset[1].case = BoundCase(session_state)
    /\ series_get(BoundCase(session_state), "Case_Name") = "B"
    /\ ~df_empty(df)
    /\ case_names(df)[1] = "A"

\* C2: a failed model call leaves the transcript with the user turn that
\* started it and no agent turn for it; the failure is caught (the run ends with
\* the notice, not with an exception), and the session accepts a next submission.
C2_FailedCallKeepsUserTurn ==
    /\ Msgs = Logged
    /\ \A i \in DOMAIN since_reset :
          since_reset[i].call = "failed" =>
             /\ Msgs[i].role = "user"
             /\ (i + 1) \in DOMAIN Msgs => Msgs[i + 1].role = "user"
    /\ error = "AI Generation Error" =>
          /\ pc = "idle"
          /\ since_reset[Len(since_reset)].call = "failed"
          /\ Started
          /\ ~df_empty(df)

\* A call failed, and the next submission was accepted and answered.
C2_Witness ==
    /\ Len(Msgs) = 3
    /\ since_reset[1].call = "failed"
    /\ Msgs[2].role = "user"
    /\ Msgs[3].role = "model"

\* C3: building the instruction text never raises, a field whose cell is
\* missing is rendered empty, and so every submitted turn reaches the model call.
C3_BuildIsTotal ==
    /\ error # "KeyError"
    /\ pc = "calling" =>
          \A k \in DOMAIN PromptFields :
             series_get(BoundCase(session_state), PromptFields[k]) = NaN =>
                gemini_history[1].parts[1][k] = ""

BankHas(d, name) ==
    ~df_empty(d) /\ \E r \in DOMAIN d.rows : case_names(d)[r] = name

\* C4 as stated: the instruction text of a model call is built from the row
\* the case bank holds for the bound case's name at the time of the call.
C4_PromptFollowsBank ==
    (pc = "calling" /\ BankHas(df, series_get(BoundCase(session_state), "Case_Name"))) =>
        LET now == build_system_prompt(
                      first_row_named(df, series_get(BoundCase(session_state), "Case_Name")))
        IN now.raises = "none" => gemini_history[1].parts[1] = now.text

\* C4, amended: the instruction text of a model call is built, at that call,
\* from the record bound at the latest Start/Reset, whatever the bank holds now.
C4_PromptFromBoundCase ==
    pc = "calling" =>
        /\ build_system_prompt(BoundCase(session_state)).raises = "none"
        /\ gemini_history[1].parts[1] = build_system_prompt(BoundCase(session_state)).text

\* The bank's row for the bound name was edited, and the call carries the old text.
C4_Witness ==
    /\ pc = "calling"
    /\ BankHas(df, "A")
    /\ series_get(BoundCase(session_state), "Case_Name") = "A"
    /\ first_row_named(df, "A") # BoundCase(session_state)
    /\ gemini_history[1].parts[1][1] = "v1"
    /\ build_system_prompt(first_row_named(df, "A")).raises = "none"
    /\ build_system_prompt(first_row_named(df, "A")).text[1] = "v2"

\* C5: the list sent to the model is the instruction text followed by the
\* transcript's turns, one message each, in order, user turns as "user" and
\* agent turns as "model", the submitted turn last.
C5_HistoryIsPromptPlusTranscript ==
    pc = "calling" =>
        /\ Len(gemini_history) = 1 + Len(Msgs)
        /\ gemini_history[1].role = "user"
        /\ gemini_history[1].parts = <<build_system_prompt(BoundCase(session_state)).text>>
        /\ \A i \in DOMAIN Msgs :
              /\ gemini_history[i + 1].parts = <<Msgs[i].content>>
              /\ Msgs[i].role \in {"user", "model"}
              /\ gemini_history[i + 1].role = Msgs[i].role
        /\ gemini_history[Len(gemini_history)].role = "user"
        /\ since_reset[Len(since_reset)].call = "pending"
        /\ gemini_history[Len(gemini_history)].parts =
              <<since_reset[Len(since_reset)].turn.content>>

\* A call whose list holds an agent turn between two user turns.
C5_Witness ==
    /\ pc = "calling"
    /\ Len(gemini_history) = 4
    /\ gemini_history[2].role = "user"
    /\ gemini_history[3].role = "model"
    /\ gemini_history[4].role = "user"

\* C6: a run appends at most one user turn: the typed text when there is one,
\* else the transcribed speech, and with neither nothing is appended and no
\* model call is made.
C6_OneUtteranceTypedFirst ==
    [][(pc = "idle" /\ trigger' \notin {"reset", "open"}) =>
          /\ IsPrefix(Msgs, Messages(session_state'))
          /\ Len(Messages(session_state')) <= Len(Msgs) + 1
          /\ truthy(chat_input_text') =>
                Messages(session_state') =
                   Append(Msgs, [role |-> "user", content |-> chat_input_text'])
          /\ (~truthy(chat_input_text') /\ truthy(voice_text') /\ Started) =>
                Messages(session_state') =
                   Append(Msgs, [role |-> "user", content |-> voice_text'])
          /\ (~truthy(chat_input_text') /\ ~truthy(voice_text')) =>
                /\ Messages(session_state') = Msgs
                /\ pc' = "idle"
      ]_vars

\* Typed text and a transcription arrived in one run; the typed text was sent.
C6_Witness ==
    /\ pc = "calling"
    /\ chat_input_text = "t"
    /\ voice_text = "v"
    /\ Msgs[Len(Msgs)] = [role |-> "user", content |-> "t"]

IsRenameKey(h) == h.lead = 0 /\ h.trail = 0 /\ h.core \in DOMAIN rename_map

Canonical == {rename_map[k] : k \in DOMAIN rename_map}

\* C7: a successful load gives every column whose header is a spelling of the
\* rename table its canonical name, in place; "Parent_Personae" becomes
\* Parent_Persona and keeps the row's value.
C7_RenameTableNormalizes ==
    (pc = "loaded" /\ Len(df.columns) > 0) =>
        /\ Len(df.columns) = Len(source.table.columns)
        /\ \A i \in DOMAIN source.table.columns :
              IsRenameKey(source.table.columns[i]) =>
                 /\ df.columns[i] = Hdr(rename_map[source.table.columns[i].core])
                 /\ df.columns[i].core \in Canonical
        /\ \A i \in DOMAIN source.table.columns :
              source.table.columns[i] = Hdr("Parent_Personae") =>
                 /\ df.columns[i] = Hdr("Parent_Persona")
                 /\ \A r \in DOMAIN df.rows :
                       \E q \in DOMAIN source.table.rows :
                          df.rows[r][i] = source.table.rows[q][i]

\* A sheet with the header "Parent_Personae" and a value under it was loaded.
C7_Witness ==
    /\ pc = "loaded"
    /\ source.ok
    /\ Len(source.table.columns) >= 3
    /\ source.table.columns[3] = Hdr("Parent_Personae")
    /\ Len(df.rows) = 1
    /\ df.columns[3] = Hdr("Parent_Persona")
    /\ df.rows[1][3] = "v1"

NameCell(table, row) ==
    row[CHOOSE i \in DOMAIN table.columns : IsNameHeader(table.columns[i])]

\* C8: a successful load returns exactly the sheet's rows that have a name,
\* in sheet order, however many of their other cells are empty.
C8_ExactlyNamedRows ==
    (pc = "loaded" /\ Len(df.columns) > 0) =>
        df.rows = SelectSeq(source.table.rows,
                            LAMBDA row : NameCell(source.table, row) # NaN)

\* A nameless row was dropped and a named row with only empty cells was kept.
C8_Witness ==
    /\ pc = "loaded"
    /\ source.ok
    /\ Len(source.table.rows) = 2
    /\ NameCell(source.table, source.table.rows[1]) = NaN
    /\ NameCell(source.table, source.table.rows[2]) = "A"
    /\ source.table.rows[2][2] = NaN
    /\ df.rows = <<source.table.rows[2]>>

\* C9: a run that is not a Start/Reset (a new selection, the audio toggle, a
\* submission, each with or without a refreshed bank) leaves the bound case as
\* it is and only ever extends the transcript; a selection or a toggle leaves
\* the transcript as it is; a call made in such a run is built from the case
\* bound before it.
C9_OnlyResetRebinds ==
    [][trigger' \notin {"reset", "open"} =>
          /\ BoundCase(session_state') = BoundCase(session_state)
          /\ ("chat_started" \in DOMAIN session_state') = Started
          /\ IsPrefix(Msgs, Messages(session_state'))
          /\ trigger' \in {"select", "toggle"} =>
                /\ Messages(session_state') = Msgs
                /\ pc' = "idle"
          /\ (pc = "idle" /\ pc' = "calling") =>
                gemini_history'[1].parts[1] =
                   build_system_prompt(BoundCase(session_state)).text
      ]_vars

\* Case A is bound and has a turn, B is selected, the bank no longer holds A's
\* bound row, and the pending call is built from A.
C9_Witness ==
    /\ pc = "calling"
    /\ Len(Msgs) >= 2
    /\ selected_case_name = "B"
    /\ series_get(BoundCase(session_state), "Case_Name") = "A"
    /\ \A r \in DOMAIN df.rows : df.rows[r] # BoundCase(session_state).values
    /\ enable_audio
    /\ gemini_history[1].parts[1] = build_system_prompt(BoundCase(session_state)).text

\* C10: the transcript is empty or starts with a user turn, an agent turn
\* follows a user turn, turns exist only under a bound case, and two user turns
\* are adjacent exactly where the model call of the first one failed.
C10_TranscriptShape ==
    /\ Msgs # <<>> => Msgs[1].role = "user"
    /\ \A i \in DOMAIN Msgs :
          Msgs[i].role # "user" => (i > 1 /\ Msgs[i - 1].role = "user")
    /\ Msgs # <<>> => (Started /\ "current_case_data" \in DOMAIN session_state)
    /\ Cardinality({i \in DOMAIN Msgs : Msgs[i].role # "user"})
          <= Cardinality({i \in DOMAIN Msgs : Msgs[i].role = "user"})
    /\ \A i \in DOMAIN Msgs :
          (i + 1) \in DOMAIN Msgs =>
             ((Msgs[i].role = "user" /\ Msgs[i + 1].role = "user")
                 <=> since_reset[i].call = "failed")

====
